---- MODULE Spec2Model ----
(***************************************************************************)
(* Model of the two components of the solvr repository:                    *)
(*   - packages/sdk-python/solvr/client.py : Solvr._request, the bounded   *)
(*     retry loop with exponential backoff of the HTTP client;             *)
(*   - infra/provision.py : the provisioner commands (provision, list,     *)
(*     destroy, status) acting on the provider's servers and SSH keys and  *)
(*     on the local key files and metadata files.                          *)
(* The components share no runtime; each has its own specification         *)
(* (Spec for the SDK client, ProvSpec for the provisioner).                *)
(***************************************************************************)
EXTENDS Integers, Sequences, FiniteSets, TLC

(***************************************************************************)
(* Bounds of the model                                                     *)
(***************************************************************************)
\* largest value of the `retries` constructor argument that is explored
MaxRetries == 8

\* provider-assigned ids handed out to created servers and registered keys
MaxIds == 4

\* values of `retries` a client is constructed with (negative and zero included)
RetriesDom == (-1) .. MaxRetries

(***************************************************************************)
(* SDK client: responses, error bodies, errors                             *)
(***************************************************************************)
\* HTTP statuses the server answers with
SuccessStatuses == {200, 201}
ClientStatuses == {400, 401, 404, 499}
ServerStatuses == {500, 503, 599}
Statuses == SuccessStatuses \cup ClientStatuses \cup ServerStatuses

\* shapes of a response body:
\*   text            not JSON at all ("Internal Server Error")
\*   array           JSON, but not an object
\*   no_error        JSON object without an "error" member
\*   error_null      {"error": null} or {"error": "text"}: "error" is no object
\*   error_msg       {"error": {"message": M}}
\*   error_code      {"error": {"code": C}}
\*   error_msg_code  {"error": {"message": M, "code": C}}
Bodies == {"text", "array", "no_error", "error_null", "error_msg", "error_code",
           "error_msg_code"}

\* transport-level failures raised by requests.request
TransportFailures == {"Timeout", "ConnectionError"}

\* the message and the code carried by a well-formed error body
BodyMessage == <<"Unauthorized">>
BodyCode == "NOT_FOUND"

\* Python's None
None == "None"
NoError == [kind |-> "None"]

\* variant of ResponseOk: only 200 counts as success
ResponseOk_Only200(status) == status = 200

\* requests' Response.ok: no 4xx and no 5xx status
ResponseOk(status) == status < 400

\* f"API error: {status}"
GenericMessage(status) == <<"API error: ", status>>

\* response.json() raises on a body that is not JSON
JsonParses(body) == body # "text"

\* variant of ErrorMessage: "message" read without a default, None when absent
ErrorMessage_NoDefault(body, status) ==
    IF body \in {"error_msg", "error_msg_code"} THEN BodyMessage
    ELSE IF body \in {"no_error", "error_code"} THEN <<None>>
    ELSE GenericMessage(status)

\* lines 321-328: the message taken from an error body, or the generic one
\* when response.json() raises, when the body or its "error" is no object
\* (the .get raises AttributeError) or when "message" is absent
ErrorMessage(body, status) ==
    IF body \in {"error_msg", "error_msg_code"} THEN BodyMessage
    ELSE GenericMessage(status)

\* lines 321-328: the code taken from an error body, None when the body is
\* malformed or "code" is absent
ErrorCode(body) ==
    IF body \in {"error_code", "error_msg_code"} THEN BodyCode ELSE None

\* types.py: SolvrError(message, status, code)
SolvrError(message, status, code) ==
    [kind |-> "SolvrError", message |-> message, status |-> status, code |-> code]

\* an exception of requests.exceptions (RequestException and subclasses)
RequestException(cause) == [kind |-> "RequestException", cause |-> cause]

\* Exception("Request failed after retries")
GenericException == [kind |-> "Exception", message |-> <<"Request failed after retries">>]

\* the ValueError (json.JSONDecodeError) of an older requests
ValueError == [kind |-> "ValueError"]

\* variant of IsClientError: the lower limit excluded
IsClientError_Above400(status) == 400 < status /\ status < 500

\* line 331: the statuses that are never retried
IsClientError(status) == 400 <= status /\ status < 500

\* backoff parameters in milliseconds: 0.1 s base, 5 s cap
BackoffBaseMs == 100
BackoffCapMs == 5000

Min(a, b) == IF a <= b THEN a ELSE b

\* variant of Delay: exponent `attempts` in place of `attempts - 1`
Delay_ExponentOff(n) == Min(BackoffBaseMs * (2 ^ n), BackoffCapMs)

\* lines 338 and 352: delay = min(0.1 * (2 ** (attempts - 1)), 5), in ms
Delay(n) == Min(BackoffBaseMs * (2 ^ (n - 1)), BackoffCapMs)

(***************************************************************************)
(* Provisioner: configuration and helpers                                  *)
(***************************************************************************)
\* server names given on the command line
Names == {"solvr-ipfs-01", "solvr-api-01"}

\* the values of --purpose, --type and --location explored, None for an absent
\* flag: no flag at all, each flag given, an explicit ipfs
ProvisionArgs ==
    {<<None, None, None>>, <<"ipfs", None, "hel1">>, <<"api", "cx42", None>>,
     <<"cluster", None, None>>}

DEFAULT_LOCATION == "nbg1"

\* SERVER_PRESETS
SERVER_PRESETS ==
    [ipfs    |-> [type |-> "cx33", image |-> "ubuntu-24.04",
                  labels |-> [service |-> "ipfs", component |-> "kubo"]],
     api     |-> [type |-> "cx33", image |-> "ubuntu-24.04",
                  labels |-> [service |-> "api", component |-> "solvr"]],
     cluster |-> [type |-> "cx43", image |-> "ubuntu-24.04",
                  labels |-> [service |-> "ipfs", component |-> "cluster"]]]

\* args.purpose or "ipfs"
PurposeOf(arg) == IF arg = None THEN "ipfs" ELSE arg

\* SERVER_PRESETS.get(purpose, SERVER_PRESETS["ipfs"])
PresetOf(purpose) ==
    IF purpose \in DOMAIN SERVER_PRESETS THEN SERVER_PRESETS[purpose]
    ELSE SERVER_PRESETS["ipfs"]

\* args.type or preset["type"]
ServerTypeOf(arg, preset) == IF arg = None THEN preset.type ELSE arg

\* args.location or DEFAULT_LOCATION
LocationOf(arg) == IF arg = None THEN DEFAULT_LOCATION ELSE arg

\* variant of LabelsOf: the labels of the preset and the name only
LabelsOf_Unmarked(preset, name) == ("name" :> name) @@ preset.labels

\* labels = preset["labels"].copy(); labels["name"] = name;
\* labels["managed-by"] = "solvr-infra"
LabelsOf(preset, name) ==
    ("managed-by" :> "solvr-infra") @@ ("name" :> name) @@ preset.labels

\* CLOUD_INIT_IPFS if purpose == "ipfs" else None
UserDataOf(purpose) == IF purpose = "ipfs" THEN "CLOUD_INIT_IPFS" ELSE None

\* SSH_DIR / f"solvr_{name}"
KeyPath(name) == <<"~/.ssh/solvr_", name>>

\* f"solvr-{name}"
SshKeyName(name) == <<"solvr-", name>>

\* the address the provider gives the server with this id
IpOf(id) == <<"ip", id>>

\* wait_for_ssh(ip, key_path, max_retries=10)
MaxSshRetries == 10

\* servers of the project that this tool did not create
ForeignServers ==
    {[id |-> 100 + i, name |-> n, server_type |-> "cx22", image |-> "debian-12",
      location |-> "fsn1", labels |-> [owner |-> "ops"], ssh_keys |-> {},
      user_data |-> None]
       : <<i, n>> \in {<<1, "solvr-ipfs-01">>, <<2, "solvr-api-01">>}}

\* client.servers.get_by_name(name)
ServersNamed(all, name) == {s \in all : s.name = name}

\* client.ssh_keys.get_by_name(key_name)
KeysNamed(all, key_name) == {k \in all : k.name = key_name}

\* client.servers.get_all(label_selector="managed-by=solvr-infra")
ManagedServers(all) ==
    {s \in all : "managed-by" \in DOMAIN s.labels /\ s.labels["managed-by"] = "solvr-infra"}

(***************************************************************************)
(* State                                                                   *)
(***************************************************************************)
VARIABLES
    retries,      \* self._retries, set by the constructor
    client,       \* the other fields the constructor sets: _api_key, _base_url, _timeout, _debug
    failedBefore, \* history: an earlier call on this client ended with an exception
    pc,           \* position of the caller in _request: idle, loop, returned, raised
    attempts,     \* local variable `attempts`
    last_error,   \* local variable `last_error`
    result,       \* what the call handed to its caller: a body or a raised error
    response,     \* what the latest requests.request call produced
    sent,         \* requests handed to requests.request during this call
    slept,        \* arguments of the time.sleep calls of this call, in ms
    nServer,      \* requests of this call answered with a status >= 500
    nTransport,   \* requests of this call ended by a transport failure
    nDecode,      \* requests of this call answered ok with a body that is not JSON
    \* provisioner: the world it acts on
    hasToken,     \* a credential is available (HCLOUD_TOKEN or the hcloud CLI context)
    raisedBefore, \* history: some command so far died of an exception
    servers,      \* the servers at the provider
    ssh_keys,     \* the SSH keys registered at the provider
    keyFiles,     \* the private key files present in SSH_DIR
    metadata,     \* the metadata files present under INSTANCES_DIR, one record each
    nextId,       \* the next id the provider assigns
    \* provisioner: the command being run
    ppc,          \* position in the command, idle between commands
    cmd,          \* the command and its arguments
    server,       \* local variable: the server found or created (its record)
    ssh_key,      \* local variable: the registered key handed to servers.create
    confirm,      \* local variable of cmd_destroy: the answer to the prompt
    probes,       \* wait_for_ssh: probes made so far
    naps,         \* arguments of the time.sleep calls of this command, in seconds
    steps,        \* the effects this command has had, in order
    exit,         \* how the last command ended
    output,       \* what the last command reported
    \* response parsing
    data,         \* the "data" object of a response body, as response.json() gave it
    post          \* what _parse_post made of it

sdkVars == <<retries, client, failedBefore, pc, attempts, last_error, result, response, sent, slept,
             nServer, nTransport, nDecode>>

worldVars == <<hasToken, raisedBefore, servers, ssh_keys, keyFiles, metadata, nextId>>

cmdVars == <<ppc, cmd, confirm, server, ssh_key, probes, naps, steps, exit, output>>

provVars == <<worldVars, cmdVars>>

parseVars == <<data, post>>

vars == <<sdkVars, provVars, parseVars>>

\* the base URLs a caller passes: the default, and one written with trailing slashes
DEFAULT_BASE_URL == <<"https://api.solvr.dev">>
DEFAULT_TIMEOUT == 30
BaseUrls == {DEFAULT_BASE_URL,
             <<"http://localhost:8080", "/">>,
             <<"http://localhost:8080", "/", "/">>}

\* str.rstrip("/"): the URL without its trailing slashes
RECURSIVE Rstrip(_)
Rstrip(url) ==
    IF url # <<>> /\ url[Len(url)] = "/"
    THEN Rstrip(SubSeq(url, 1, Len(url) - 1))
    ELSE url

\* lines 71-75, without _retries: the fields Solvr.__init__ stores
Client(api_key, base_url, timeout, debug) ==
    [_api_key |-> api_key, _base_url |-> Rstrip(base_url),
     _timeout |-> timeout, _debug |-> debug]

Pending == [kind |-> "pending"]
NoResponse == [kind |-> "none"]
HttpResponse(status, body) == [kind |-> "http", status |-> status, body |-> body]
Failure(cause) == [kind |-> "failure", cause |-> cause]

\* Solvr.__init__: the client as constructed, no call made yet
SdkInit ==
    /\ retries \in RetriesDom
    /\ \E u \in BaseUrls : client = Client("sk_test", u, DEFAULT_TIMEOUT, FALSE)
    /\ failedBefore = FALSE
    /\ pc = "idle"
    /\ attempts = 0
    /\ last_error = NoError
    /\ result = Pending
    /\ response = NoResponse
    /\ sent = 0
    /\ slept = <<>>
    /\ nServer = 0
    /\ nTransport = 0
    /\ nDecode = 0

\* variant of Request: the attempt counter lives on across calls
Request_KeepsAttempts ==
    /\ pc \in {"idle", "returned", "raised"}
    /\ pc' = "loop"
    /\ attempts' = attempts
    /\ last_error' = NoError
    /\ result' = Pending
    /\ response' = NoResponse
    /\ sent' = 0
    /\ slept' = <<>>
    /\ nServer' = 0
    /\ nTransport' = 0
    /\ nDecode' = 0
    /\ failedBefore' = (failedBefore \/ pc = "raised")
    /\ UNCHANGED <<retries, client, provVars, parseVars>>

\* lines 299-300: an API method enters _request
Request ==
    /\ pc \in {"idle", "returned", "raised"}
    /\ pc' = "loop"
    /\ attempts' = 0
    /\ last_error' = NoError
    /\ result' = Pending
    /\ response' = NoResponse
    /\ sent' = 0
    /\ slept' = <<>>
    /\ nServer' = 0
    /\ nTransport' = 0
    /\ nDecode' = 0
    /\ failedBefore' = (failedBefore \/ pc = "raised")
    /\ UNCHANGED <<retries, client, provVars, parseVars>>

\* variant of RetryOrRaise: gives up one attempt early
RetryOrRaise_Early(n, err) ==
    IF n + 1 < retries
    THEN /\ slept' = Append(slept, Delay(n))
         /\ pc' = "loop"
         /\ result' = result
    ELSE /\ slept' = slept
         /\ pc' = "raised"
         /\ result' = [kind |-> "raise", error |-> err]

\* variant of RetryOrRaise: raises the error remembered before this attempt
RetryOrRaise_Stale(n, err) ==
    IF n < retries
    THEN /\ slept' = Append(slept, Delay(n))
         /\ pc' = "loop"
         /\ result' = result
    ELSE /\ slept' = slept
         /\ pc' = "raised"
         /\ result' = [kind |-> "raise", error |-> last_error]

\* what the far end of requests.request saw of an answered attempt: one more
\* request, its response, and the count of the kind of failure it is
Observe(status, body) ==
    /\ sent' = sent + 1
    /\ response' = HttpResponse(status, body)
    /\ nServer' = nServer + (IF status >= 500 THEN 1 ELSE 0)
    /\ nDecode' = nDecode + (IF status < 400 /\ body = "text" THEN 1 ELSE 0)
    /\ nTransport' = nTransport

\* variant of RetryOrRaise: sleeps after the last attempt too, then raises
RetryOrRaise_SleepsLast(n, err) ==
    IF n < retries
    THEN /\ slept' = Append(slept, Delay(n))
         /\ pc' = "loop"
         /\ result' = result
    ELSE /\ slept' = Append(slept, Delay(n))
         /\ pc' = "raised"
         /\ result' = [kind |-> "raise", error |-> err]

\* lines 337-342 and 351-356: after a retryable failure, sleep and continue
\* when attempts remain, else raise the error `err`
RetryOrRaise(n, err) ==
    IF n < retries
    THEN /\ slept' = Append(slept, Delay(n))
         /\ pc' = "loop"
         /\ result' = result
    ELSE /\ slept' = slept
         /\ pc' = "raised"
         /\ result' = [kind |-> "raise", error |-> err]

\* lines 302-344: an attempt answered with an ok status and a JSON body
AttemptOk(status, body) ==
    /\ pc = "loop"
    /\ attempts < retries
    /\ ResponseOk(status)
    /\ JsonParses(body)
    /\ attempts' = attempts + 1
    /\ Observe(status, body)
    /\ result' = [kind |-> "return", body |-> body]
    /\ pc' = "returned"
    /\ UNCHANGED <<retries, client, failedBefore, last_error, slept, provVars, parseVars>>

\* lines 344, 348-356: an ok status whose body is not JSON; response.json()
\* raises.  With requests >= 2.27 the exception is requests' JSONDecodeError,
\* a RequestException, which the loop retries; with an older requests it is a
\* plain ValueError, which no except clause catches and which leaves the call
AttemptOkUnparsable(status, caught) ==
    /\ pc = "loop"
    /\ attempts < retries
    /\ ResponseOk(status)
    /\ attempts' = attempts + 1
    /\ Observe(status, "text")
    /\ IF caught
       THEN /\ last_error' = RequestException("JSONDecodeError")
            /\ RetryOrRaise(attempts + 1, RequestException("JSONDecodeError"))
       ELSE /\ last_error' = last_error
            /\ slept' = slept
            /\ pc' = "raised"
            /\ result' = [kind |-> "raise", error |-> ValueError]
    /\ UNCHANGED <<retries, client, failedBefore, provVars, parseVars>>

\* variant of AttemptClientError: only the first attempt treats the status as
\* terminal, a later one retries it
AttemptClientError_FirstOnly(status, body) ==
    /\ pc = "loop"
    /\ attempts < retries
    /\ ~ResponseOk(status)
    /\ IsClientError(status)
    /\ attempts' = attempts + 1
    /\ Observe(status, body)
    /\ IF attempts = 0
       THEN /\ result' = [kind |-> "raise",
                          error |-> SolvrError(ErrorMessage(body, status), status,
                                               ErrorCode(body))]
            /\ pc' = "raised"
            /\ UNCHANGED <<last_error, slept>>
       ELSE /\ last_error' = SolvrError(ErrorMessage(body, status), status, ErrorCode(body))
            /\ RetryOrRaise(attempts + 1, last_error')
    /\ UNCHANGED <<retries, client, failedBefore, provVars, parseVars>>

\* lines 317-332, 346-347: a status in [400,500) raises at once
AttemptClientError(status, body) ==
    /\ pc = "loop"
    /\ attempts < retries
    /\ ~ResponseOk(status)
    /\ IsClientError(status)
    /\ attempts' = attempts + 1
    /\ Observe(status, body)
    /\ result' = [kind |-> "raise",
                  error |-> SolvrError(ErrorMessage(body, status), status, ErrorCode(body))]
    /\ pc' = "raised"
    /\ UNCHANGED <<retries, client, failedBefore, last_error, slept, provVars, parseVars>>

\* variant of AttemptServerError: a server error does not use up an attempt
AttemptServerError_NotCounted(status, body) ==
    /\ pc = "loop"
    /\ attempts < retries
    /\ ~ResponseOk(status)
    /\ ~IsClientError(status)
    /\ attempts' = attempts
    /\ Observe(status, body)
    /\ last_error' = SolvrError(ErrorMessage(body, status), status, ErrorCode(body))
    /\ RetryOrRaise(attempts + 1, last_error')
    /\ UNCHANGED <<retries, client, failedBefore, provVars, parseVars>>

\* lines 317-342: any other not-ok status is remembered and retried
AttemptServerError(status, body) ==
    /\ pc = "loop"
    /\ attempts < retries
    /\ ~ResponseOk(status)
    /\ ~IsClientError(status)
    /\ attempts' = attempts + 1
    /\ Observe(status, body)
    /\ last_error' = SolvrError(ErrorMessage(body, status), status, ErrorCode(body))
    /\ RetryOrRaise(attempts + 1, last_error')
    /\ UNCHANGED <<retries, client, failedBefore, provVars, parseVars>>

\* lines 309-315, 348-356: requests.request raises a RequestException
AttemptTransportError(cause) ==
    /\ pc = "loop"
    /\ attempts < retries
    /\ attempts' = attempts + 1
    /\ sent' = sent + 1
    /\ response' = Failure(cause)
    /\ last_error' = RequestException(cause)
    /\ nTransport' = nTransport + 1
    /\ RetryOrRaise(attempts + 1, RequestException(cause))
    /\ UNCHANGED <<retries, client, failedBefore, nServer, nDecode, provVars, parseVars>>

\* variant of LoopExit: raises last_error with no fallback
LoopExit_NoFallback ==
    /\ pc = "loop"
    /\ ~(attempts < retries)
    /\ result' = [kind |-> "raise", error |-> last_error]
    /\ pc' = "raised"
    /\ UNCHANGED <<retries, client, failedBefore, attempts, last_error, response, sent, slept,
                   nServer, nTransport, nDecode, provVars, parseVars>>

\* lines 302, 358: the loop condition fails; raise last_error or the generic
\* exception
LoopExit ==
    /\ pc = "loop"
    /\ ~(attempts < retries)
    /\ result' = [kind |-> "raise",
                  error |-> IF last_error # NoError THEN last_error ELSE GenericException]
    /\ pc' = "raised"
    /\ UNCHANGED <<retries, client, failedBefore, attempts, last_error, response, sent, slept,
                   nServer, nTransport, nDecode, provVars, parseVars>>

Next ==
    \/ Request
    \/ \E s \in Statuses, b \in Bodies : AttemptOk(s, b)
    \/ \E s \in Statuses, caught \in BOOLEAN : AttemptOkUnparsable(s, caught)
    \/ \E s \in Statuses, b \in Bodies : AttemptClientError(s, b)
    \/ \E s \in Statuses, b \in Bodies : AttemptServerError(s, b)
    \/ \E c \in TransportFailures : AttemptTransportError(c)
    \/ LoopExit

(***************************************************************************)
(* SDK client: response parsing                                            *)
(***************************************************************************)
\* JSON values as Python holds them after response.json(); a JSON object is a
\* function from its keys to values
PyNone == [none |-> TRUE]
PyStr(s) == [str |-> s]
PyInt(n) == [int |-> n]
PyBool(b) == [bool |-> b]
PyList(items) == [list |-> items]
PyDict(d) == [dict |-> d]

\* bool(x), as `if x` and `if not x` evaluate it
Truthy(x) ==
    CASE "none" \in DOMAIN x -> FALSE
      [] "str" \in DOMAIN x -> x.str # ""
      [] "int" \in DOMAIN x -> x.int # 0
      [] "bool" \in DOMAIN x -> x.bool
      [] "list" \in DOMAIN x -> x.list # <<>>
      [] "dict" \in DOMAIN x -> DOMAIN x.dict # {}

\* dict.get(key, default); dict.get(key) is Get(d, key, PyNone)
Get(d, key, default) == IF key \in DOMAIN d THEN d[key] ELSE default

\* d[key] of a missing key
KeyError(key) == [raised |-> "KeyError", key |-> key]

\* the first of `keys`, in the order the code reads them, that d lacks
FirstMissing(d, keys) ==
    LET missing == {i \in DOMAIN keys : keys[i] \notin DOMAIN d}
    IN  keys[CHOOSE i \in missing : \A j \in missing : i <= j]

\* lines 442-451
_parse_author(a) ==
    IF ~Truthy(a)
    THEN PyNone
    ELSE [id |-> a.dict.id,
          type |-> a.dict.type,
          display_name |-> a.dict.display_name,
          avatar_url |-> Get(a.dict, "avatar_url", PyNone)]

\* lines 411-426
_parse_approach(a) ==
    [id |-> a.dict.id,
     post_id |-> Get(a.dict, "post_id", PyStr("")),
     angle |-> a.dict.angle,
     content |-> Get(a.dict, "content", PyStr("")),
     status |-> Get(a.dict, "status", PyStr("proposed")),
     upvotes |-> Get(a.dict, "upvotes", PyInt(0)),
     downvotes |-> Get(a.dict, "downvotes", PyInt(0)),
     created_at |-> Get(a.dict, "created_at", PyStr("")),
     updated_at |-> Get(a.dict, "updated_at", PyStr("")),
     method |-> Get(a.dict, "method", PyNone),
     assumptions |-> Get(a.dict, "assumptions", PyNone),
     author |-> IF Truthy(Get(a.dict, "author", PyNone))
                THEN _parse_author(Get(a.dict, "author", PyNone))
                ELSE PyNone]

\* lines 428-440
_parse_answer(a) ==
    [id |-> a.dict.id,
     post_id |-> Get(a.dict, "post_id", PyStr("")),
     content |-> a.dict.content,
     is_accepted |-> Get(a.dict, "is_accepted", PyBool(FALSE)),
     upvotes |-> Get(a.dict, "upvotes", PyInt(0)),
     downvotes |-> Get(a.dict, "downvotes", PyInt(0)),
     created_at |-> Get(a.dict, "created_at", PyStr("")),
     updated_at |-> Get(a.dict, "updated_at", PyStr("")),
     author |-> IF Truthy(Get(a.dict, "author", PyNone))
                THEN _parse_author(Get(a.dict, "author", PyNone))
                ELSE PyNone]

\* the keys _parse_post reads with d[key], in the order it reads them
PostRequired == <<"id", "type", "title", "description">>

\* lines 390-409; the dataclass default of `comments` is None (types.py)
_parse_post(d) ==
    IF \E i \in DOMAIN PostRequired : PostRequired[i] \notin DOMAIN d
    THEN KeyError(FirstMissing(d, PostRequired))
    ELSE [id |-> d.id,
          type |-> d.type,
          title |-> d.title,
          description |-> d.description,
          status |-> Get(d, "status", PyStr("open")),
          upvotes |-> Get(d, "upvotes", PyInt(0)),
          downvotes |-> Get(d, "downvotes", PyInt(0)),
          view_count |-> Get(d, "view_count", PyInt(0)),
          created_at |-> Get(d, "created_at", PyStr("")),
          updated_at |-> Get(d, "updated_at", PyStr("")),
          tags |-> Get(d, "tags", PyNone),
          author |-> IF Truthy(Get(d, "author", PyNone))
                     THEN _parse_author(Get(d, "author", PyNone))
                     ELSE PyNone,
          success_criteria |-> Get(d, "success_criteria", PyNone),
          accepted_answer_id |-> Get(d, "accepted_answer_id", PyNone),
          approaches |-> IF Truthy(Get(d, "approaches", PyNone))
                         THEN LET l == Get(d, "approaches", PyList(<<>>)).list
                              IN  PyList([i \in DOMAIN l |-> _parse_approach(l[i])])
                         ELSE PyNone,
          answers |-> IF Truthy(Get(d, "answers", PyNone))
                      THEN LET l == Get(d, "answers", PyList(<<>>)).list
                           IN  PyList([i \in DOMAIN l |-> _parse_answer(l[i])])
                      ELSE PyNone,
          comments |-> PyNone]

\* a key of a response: missing, or present with one of `values`
Optional(key, values) == {<<>>} \cup {key :> v : v \in values}

\* the ids a caller asks for
PostIds == {"post_123"}

\* the post objects a server answers with: the post of test_get_post, each
\* optional key missing or present, lists empty or not, null where the API
\* has nothing to say
Timestamp == PyStr("2024-01-01T00:00:00Z")
AuthorData == PyDict([id |-> PyStr("agent_1"), type |-> PyStr("agent"),
                      display_name |-> PyStr("Bot")])
ApproachData == PyDict([id |-> PyStr("approach_1"), angle |-> PyStr("bisect"),
                        author |-> AuthorData])
AnswerData == PyDict([id |-> PyStr("answer_1"), content |-> PyStr("use a lock"),
                      is_accepted |-> PyBool(TRUE)])
CommentData == PyDict([id |-> PyStr("comment_1"), content |-> PyStr("same here")])
PostData(id) ==
    {[id |-> PyStr(id), type |-> PyStr("problem"), title |-> PyStr("Test")]
       @@ description @@ status @@ upvotes @@ downvotes @@ view_count @@ created_at
       @@ updated_at @@ tags @@ author @@ success_criteria @@ accepted_answer_id
       @@ approaches @@ answers @@ comments :
     description \in Optional("description", {PyStr("Test description")}),
     status \in Optional("status", {PyStr("solved"), PyNone}),
     upvotes \in Optional("upvotes", {PyInt(10)}),
     downvotes \in Optional("downvotes", {PyInt(0)}),
     view_count \in Optional("view_count", {PyInt(100)}),
     created_at \in Optional("created_at", {Timestamp}),
     updated_at \in Optional("updated_at", {Timestamp}),
     tags \in Optional("tags", {PyList(<<>>), PyList(<<PyStr("go")>>)}),
     author \in Optional("author", {PyNone, AuthorData}),
     success_criteria \in Optional("success_criteria", {PyList(<<PyStr("tests pass")>>)}),
     accepted_answer_id \in Optional("accepted_answer_id", {PyStr("answer_1")}),
     approaches \in Optional("approaches", {PyList(<<>>), PyList(<<ApproachData>>)}),
     answers \in Optional("answers", {PyList(<<>>), PyList(<<AnswerData>>)}),
     comments \in Optional("comments", {PyList(<<CommentData>>)})}

NoData == PyNone
NotParsed == [state |-> "not parsed"]

\* no response has been received yet
ParseInit ==
    /\ data = NoData
    /\ post = NotParsed

\* Solvr.get, lines 143-148: _request returned a body with some "data" object
GetPost(id) ==
    /\ data = NoData
    /\ data' \in PostData(id)
    /\ post' = NotParsed
    /\ UNCHANGED <<sdkVars, provVars>>

\* Solvr.get, line 149: return self._parse_post(data["data"])
ParsePost ==
    /\ data # NoData
    /\ post = NotParsed
    /\ post' = _parse_post(data)
    /\ UNCHANGED <<data, sdkVars, provVars>>

ParseNext ==
    \/ \E id \in PostIds : GetPost(id)
    \/ ParsePost

(***************************************************************************)
(* Provisioner                                                             *)
(***************************************************************************)
NoCommand == [op |-> "none"]
NoOutput == [kind |-> "none"]
NoServer == [id |-> 0]
\* the local `confirm` of cmd_destroy before the prompt is answered
Unset == "<unset>"

\* a fresh checkout: nothing provisioned yet, other servers may exist in the
\* provider project
ProvInit ==
    /\ hasToken \in BOOLEAN
    /\ raisedBefore = FALSE
    /\ servers \in SUBSET ForeignServers
    /\ ssh_keys = {}
    /\ keyFiles = {}
    /\ metadata = {}
    /\ nextId = 1
    /\ ppc = "idle"
    /\ cmd = NoCommand
    /\ confirm = Unset
    /\ server = NoServer
    /\ ssh_key = 0
    /\ probes = 0
    /\ naps = <<>>
    /\ steps = <<>>
    /\ exit = "none"
    /\ output = NoOutput

\* the provisioner as the SDK specification sees it: not run
ProvIdle ==
    /\ hasToken = TRUE
    /\ raisedBefore = FALSE
    /\ servers = {}
    /\ ssh_keys = {}
    /\ keyFiles = {}
    /\ metadata = {}
    /\ nextId = 1
    /\ ppc = "idle"
    /\ cmd = NoCommand
    /\ confirm = Unset
    /\ server = NoServer
    /\ ssh_key = 0
    /\ probes = 0
    /\ naps = <<>>
    /\ steps = <<>>
    /\ exit = "none"
    /\ output = NoOutput

\* the SDK client as the provisioner specification sees it: constructed, unused
SdkIdle ==
    /\ retries = 3
    /\ client = Client("sk_test", DEFAULT_BASE_URL, DEFAULT_TIMEOUT, FALSE)
    /\ failedBefore = FALSE
    /\ pc = "idle"
    /\ attempts = 0
    /\ last_error = NoError
    /\ result = Pending
    /\ response = NoResponse
    /\ sent = 0
    /\ slept = <<>>
    /\ nServer = 0
    /\ nTransport = 0
    /\ nDecode = 0

\* a command starts: its locals and its record of effects are fresh
Begin(command) ==
    /\ cmd' = command
    /\ confirm' = Unset
    /\ server' = NoServer
    /\ ssh_key' = 0
    /\ probes' = 0
    /\ naps' = <<>>
    /\ steps' = <<>>
    /\ exit' = "running"
    /\ output' = NoOutput

\* a command ends; the locals of wait_for_ssh and the sleeps of the command are
\* those of a command in progress
End(status, report) ==
    /\ ppc' = "idle"
    /\ exit' = status
    /\ output' = report
    /\ probes' = 0
    /\ naps' = <<>>

\* get_client, lines 77-97: the token is looked up anew by every command;
\* between two commands the operator may set or unset it
SetCredential ==
    /\ ppc = "idle"
    /\ hasToken' = ~hasToken
    /\ UNCHANGED <<raisedBefore, servers, ssh_keys, keyFiles, metadata, nextId, cmdVars, sdkVars, parseVars>>

\* get_client, lines 99-102: no token, sys.exit(1), whatever the command
NoCredential(op) ==
    /\ ppc = "idle"
    /\ ~hasToken
    /\ cmd' = [op |-> op]
    /\ confirm' = Unset
    /\ server' = NoServer
    /\ ssh_key' = 0
    /\ steps' = <<>>
    /\ End("fatal", [kind |-> "error", text |-> "HCLOUD_TOKEN not set"])
    /\ UNCHANGED <<worldVars, sdkVars, parseVars>>

\* variant of StartProvision: get_client hands out a client without a token
StartProvision_NoTokenCheck(name, purposeArg, typeArg, locationArg) ==
    /\ ppc = "idle"
    /\ LET purpose == PurposeOf(purposeArg)
           preset == PresetOf(purpose)
       IN  Begin([op |-> "provision", name |-> name, purpose |-> purpose,
                  location |-> LocationOf(locationArg),
                  server_type |-> ServerTypeOf(typeArg, preset),
                  image |-> preset.image,
                  labels |-> LabelsOf(preset, name)])
    /\ ppc' = "p_lookup"
    /\ UNCHANGED <<worldVars, sdkVars, parseVars>>

\* cmd_provision, lines 255-277: the client, the arguments and the preset
StartProvision(name, purposeArg, typeArg, locationArg) ==
    /\ ppc = "idle"
    /\ hasToken
    /\ LET purpose == PurposeOf(purposeArg)
           preset == PresetOf(purpose)
       IN  Begin([op |-> "provision", name |-> name, purpose |-> purpose,
                  location |-> LocationOf(locationArg),
                  server_type |-> ServerTypeOf(typeArg, preset),
                  image |-> preset.image,
                  labels |-> LabelsOf(preset, name)])
    /\ ppc' = "p_lookup"
    /\ UNCHANGED <<worldVars, sdkVars, parseVars>>

\* cmd_provision, lines 279-284: a server with this name exists, report it
ProvisionExisting ==
    /\ ppc = "p_lookup"
    /\ \E existing \in ServersNamed(servers, cmd.name) :
          /\ server' = existing
          /\ End("ok", [kind |-> "exists", ip |-> IpOf(existing.id)])
    /\ UNCHANGED <<worldVars, cmd, confirm, ssh_key, steps, sdkVars, parseVars>>

\* variant of ProvisionAbsent: the result of the lookup is not looked at
ProvisionAbsent_Unchecked ==
    /\ ppc = "p_lookup"
    /\ ppc' = "p_keygen"
    /\ UNCHANGED <<worldVars, cmd, confirm, server, ssh_key, probes, naps, steps, exit, output,
                   sdkVars, parseVars>>

\* cmd_provision, lines 279-286: no server with this name, go on
ProvisionAbsent ==
    /\ ppc = "p_lookup"
    /\ ServersNamed(servers, cmd.name) = {}
    /\ ppc' = "p_keygen"
    /\ UNCHANGED <<worldVars, cmd, confirm, server, ssh_key, probes, naps, steps, exit, output,
                   sdkVars, parseVars>>

\* generate_ssh_key, lines 111-127: ssh-keygen runs when the private key file
\* is absent
GenerateSshKey ==
    /\ ppc = "p_keygen"
    /\ IF KeyPath(cmd.name) \notin keyFiles
       THEN /\ keyFiles' = keyFiles \cup {KeyPath(cmd.name)}
            /\ steps' = Append(steps, "keygen")
       ELSE /\ keyFiles' = keyFiles
            /\ steps' = Append(steps, "key_found")
    /\ ppc' = "p_register"
    /\ UNCHANGED <<hasToken, raisedBefore, servers, ssh_keys, metadata, nextId, cmd, confirm, server, ssh_key,
                   probes, naps, exit, output, sdkVars, parseVars>>

\* cmd_provision, lines 289-294: a key named solvr-<name> is registered, use it
RegisterKeyReuse ==
    /\ ppc = "p_register"
    /\ \E existing_key \in KeysNamed(ssh_keys, SshKeyName(cmd.name)) :
          ssh_key' = existing_key.id
    /\ steps' = Append(steps, "key_reused")
    /\ ppc' = "p_create"
    /\ UNCHANGED <<worldVars, cmd, confirm, server, probes, naps, exit, output, sdkVars, parseVars>>

\* variant of RegisterKeyUpload: uploads without looking for a registered key
RegisterKeyUpload_Always ==
    /\ ppc = "p_register"
    /\ nextId <= MaxIds
    /\ ssh_keys' = ssh_keys \cup
          {[id |-> nextId, name |-> SshKeyName(cmd.name), public_key |-> KeyPath(cmd.name)]}
    /\ ssh_key' = nextId
    /\ nextId' = nextId + 1
    /\ steps' = Append(steps, "key_upload")
    /\ ppc' = "p_create"
    /\ UNCHANGED <<hasToken, raisedBefore, servers, keyFiles, metadata, cmd, confirm, server, probes, naps,
                   exit, output, sdkVars, parseVars>>

\* cmd_provision, lines 289-297: no such key, upload the public key
RegisterKeyUpload ==
    /\ ppc = "p_register"
    /\ KeysNamed(ssh_keys, SshKeyName(cmd.name)) = {}
    /\ nextId <= MaxIds
    /\ ssh_keys' = ssh_keys \cup
          {[id |-> nextId, name |-> SshKeyName(cmd.name), public_key |-> KeyPath(cmd.name)]}
    /\ ssh_key' = nextId
    /\ nextId' = nextId + 1
    /\ steps' = Append(steps, "key_upload")
    /\ ppc' = "p_create"
    /\ UNCHANGED <<hasToken, raisedBefore, servers, keyFiles, metadata, cmd, confirm, server, probes, naps,
                   exit, output, sdkVars, parseVars>>

\* variant of CreateServer: metadata is saved right after the creation
CreateServer_NoPoll ==
    /\ ppc = "p_create"
    /\ nextId <= MaxIds
    /\ LET created == [id |-> nextId, name |-> cmd.name, server_type |-> cmd.server_type,
                       image |-> cmd.image, location |-> cmd.location,
                       labels |-> cmd.labels, ssh_keys |-> {ssh_key},
                       user_data |-> UserDataOf(cmd.purpose)]
       IN  /\ servers' = servers \cup {created}
           /\ server' = created
    /\ nextId' = nextId + 1
    /\ naps' = Append(naps, 45)
    /\ steps' = Append(steps, "create")
    /\ ppc' = "p_save"
    /\ UNCHANGED <<hasToken, raisedBefore, ssh_keys, keyFiles, metadata, cmd, confirm, ssh_key, probes, exit,
                   output, sdkVars, parseVars>>

\* cmd_provision, lines 299-320: create the server, then sleep 45 s
CreateServer ==
    /\ ppc = "p_create"
    /\ nextId <= MaxIds
    /\ LET created == [id |-> nextId, name |-> cmd.name, server_type |-> cmd.server_type,
                       image |-> cmd.image, location |-> cmd.location,
                       labels |-> cmd.labels, ssh_keys |-> {ssh_key},
                       user_data |-> UserDataOf(cmd.purpose)]
       IN  /\ servers' = servers \cup {created}
           /\ server' = created
    /\ nextId' = nextId + 1
    /\ naps' = Append(naps, 45)
    /\ steps' = Append(steps, "create")
    /\ ppc' = "p_poll"
    /\ UNCHANGED <<hasToken, raisedBefore, ssh_keys, keyFiles, metadata, cmd, confirm, ssh_key, probes, exit,
                   output, sdkVars, parseVars>>

\* wait_for_ssh, lines 133-144: a probe succeeds, return True
ProbeReady ==
    /\ ppc = "p_poll"
    /\ probes < MaxSshRetries
    /\ probes' = probes + 1
    /\ steps' = Append(steps, "poll_ready")
    /\ ppc' = "p_save"
    /\ UNCHANGED <<worldVars, cmd, confirm, server, ssh_key, naps, exit, output, sdkVars, parseVars>>

\* variant of ProbeFails: the delay grows with the number of probes made
ProbeFails_Backoff ==
    /\ ppc = "p_poll"
    /\ probes < MaxSshRetries
    /\ probes' = probes + 1
    /\ naps' = Append(naps, 5 * (probes + 1))
    /\ UNCHANGED <<worldVars, ppc, cmd, confirm, server, ssh_key, steps, exit, output, sdkVars, parseVars>>

\* wait_for_ssh, lines 133-148: a probe fails or raises, sleep 5 s
ProbeFails ==
    /\ ppc = "p_poll"
    /\ probes < MaxSshRetries
    /\ probes' = probes + 1
    /\ naps' = Append(naps, 5)
    /\ UNCHANGED <<worldVars, ppc, cmd, confirm, server, ssh_key, steps, exit, output, sdkVars, parseVars>>

\* wait_for_ssh, line 149, and lines 322-323: every probe failed, return False
PollExhausted ==
    /\ ppc = "p_poll"
    /\ ~(probes < MaxSshRetries)
    /\ steps' = Append(steps, "poll_exhausted")
    /\ ppc' = "p_save"
    /\ UNCHANGED <<worldVars, cmd, confirm, server, ssh_key, probes, naps, exit, output, sdkVars, parseVars>>

\* cmd_provision, lines 325-350, and save_metadata: write metadata.json
SaveMetadata ==
    /\ ppc = "p_save"
    /\ metadata' = {m \in metadata : m.name # cmd.name} \cup
          {[name |-> cmd.name, purpose |-> cmd.purpose, ip |-> IpOf(server.id),
            server_type |-> cmd.server_type, location |-> cmd.location,
            labels |-> cmd.labels, ssh_key_path |-> KeyPath(cmd.name),
            hetzner_id |-> server.id]}
    /\ steps' = Append(steps, "save")
    /\ End("ok", [kind |-> "provisioned", ip |-> IpOf(server.id)])
    /\ UNCHANGED <<hasToken, raisedBefore, servers, ssh_keys, keyFiles, nextId, cmd, confirm, server, ssh_key,
                   sdkVars, parseVars>>

\* positions at which the command calls the provider or a subprocess that can
\* raise: the exception ends the command
CanRaise ==
    {"p_lookup", "p_keygen", "p_register", "p_create", "d_lookup", "d_delete",
     "d_rmtree", "d_key"}

\* an API error, a failed ssh-keygen or an I/O error: the command dies with a
\* traceback, the step not done
StepRaises ==
    /\ ppc \in CanRaise
    /\ raisedBefore' = TRUE
    /\ End("error", [kind |-> "traceback", at |-> ppc])
    /\ UNCHANGED <<hasToken, servers, ssh_keys, keyFiles, metadata, nextId,
                   cmd, confirm, server, ssh_key, steps, sdkVars, parseVars>>

\* cmd_destroy, lines 370-373
StartDestroy(name, yes) ==
    /\ ppc = "idle"
    /\ hasToken
    /\ Begin([op |-> "destroy", name |-> name, yes |-> yes])
    /\ ppc' = "d_lookup"
    /\ UNCHANGED <<worldVars, sdkVars, parseVars>>

\* cmd_destroy, lines 375-378: no server with this name
DestroyAbsent ==
    /\ ppc = "d_lookup"
    /\ ServersNamed(servers, cmd.name) = {}
    /\ End("ok", [kind |-> "not_found", name |-> cmd.name])
    /\ UNCHANGED <<worldVars, cmd, confirm, server, ssh_key, steps, sdkVars, parseVars>>

\* cmd_destroy, lines 375-380: the server is found
DestroyFound ==
    /\ ppc = "d_lookup"
    /\ \E found \in ServersNamed(servers, cmd.name) : server' = found
    /\ ppc' = IF cmd.yes THEN "d_delete" ELSE "d_confirm"
    /\ UNCHANGED <<worldVars, cmd, confirm, ssh_key, probes, naps, steps, exit, output, sdkVars, parseVars>>

\* variant of Lower: any answer that starts with a y counts as "y"
Lower_FirstLetter(answer) == IF answer \in {"Y", "YES"} THEN "y" ELSE answer

\* str.lower() on the answers explored
Lower(answer) == IF answer = "Y" THEN "y" ELSE IF answer = "YES" THEN "yes" ELSE answer

Answers == {"y", "Y", "n", "", "YES"}

\* cmd_destroy, lines 380-384: the prompt
DestroyConfirm(answer) ==
    /\ ppc = "d_confirm"
    /\ confirm' = answer
    /\ IF Lower(answer) # "y"
       THEN /\ End("ok", [kind |-> "cancelled"])
       ELSE /\ ppc' = "d_delete"
            /\ UNCHANGED <<exit, output, probes, naps>>
    /\ UNCHANGED <<worldVars, cmd, server, ssh_key, steps, sdkVars, parseVars>>

\* cmd_destroy, lines 386-387: delete the server
DestroyDeleteServer ==
    /\ ppc = "d_delete"
    /\ servers' = servers \ {server}
    /\ steps' = Append(steps, "delete_server")
    /\ ppc' = "d_rmtree"
    /\ UNCHANGED <<hasToken, raisedBefore, ssh_keys, keyFiles, metadata, nextId, cmd, confirm, server, ssh_key,
                   probes, naps, exit, output, sdkVars, parseVars>>

\* variant of DestroyRemoveMetadata: the instance directory is left behind
DestroyRemoveMetadata_Skips ==
    /\ ppc = "d_rmtree"
    /\ ppc' = "d_key"
    /\ UNCHANGED <<worldVars, cmd, confirm, server, ssh_key, steps,
                   probes, naps, exit, output, sdkVars, parseVars>>

\* cmd_destroy, lines 389-393: remove the instance directory if it exists
DestroyRemoveMetadata ==
    /\ ppc = "d_rmtree"
    /\ IF \E m \in metadata : m.name = cmd.name
       THEN /\ metadata' = {m \in metadata : m.name # cmd.name}
            /\ steps' = Append(steps, "rmtree")
       ELSE UNCHANGED <<metadata, steps>>
    /\ ppc' = "d_key"
    /\ UNCHANGED <<hasToken, raisedBefore, servers, ssh_keys, keyFiles, nextId, cmd, confirm, server, ssh_key,
                   probes, naps, exit, output, sdkVars, parseVars>>

\* variant of DestroyRemoveKey: the registered key is left in place
DestroyRemoveKey_KeepsKey ==
    /\ ppc = "d_key"
    /\ UNCHANGED <<ssh_keys, ssh_key, steps>>
    /\ End("ok", [kind |-> "destroyed", name |-> cmd.name])
    /\ UNCHANGED <<hasToken, raisedBefore, servers, keyFiles, metadata, nextId, cmd, confirm, server, sdkVars, parseVars>>

\* cmd_destroy, lines 395-400: delete the registered key if there is one
DestroyRemoveKey ==
    /\ ppc = "d_key"
    /\ IF KeysNamed(ssh_keys, SshKeyName(cmd.name)) # {}
       THEN \E k \in KeysNamed(ssh_keys, SshKeyName(cmd.name)) :
               /\ ssh_keys' = ssh_keys \ {k}
               /\ ssh_key' = k.id
               /\ steps' = Append(steps, "delete_key")
       ELSE UNCHANGED <<ssh_keys, ssh_key, steps>>
    /\ End("ok", [kind |-> "destroyed", name |-> cmd.name])
    /\ UNCHANGED <<hasToken, raisedBefore, servers, keyFiles, metadata, nextId, cmd, confirm, server, sdkVars, parseVars>>

\* cmd_list, lines 353-367
ListServers ==
    /\ ppc = "idle"
    /\ hasToken
    /\ cmd' = [op |-> "list"]
    /\ confirm' = Unset
    /\ server' = NoServer
    /\ ssh_key' = 0
    /\ steps' = <<>>
    /\ LET found == ManagedServers(servers)
       IN  End("ok",     IF found = {} THEN [kind |-> "no_servers"]
                        ELSE [kind |-> "table",
                              rows |-> {[name |-> f.name, ip |-> IpOf(f.id),
                                         type |-> f.server_type,
                                         purpose |-> IF "service" \in DOMAIN f.labels
                                                     THEN f.labels["service"]
                                                     ELSE "unknown"] : f \in found}])
    /\ UNCHANGED <<worldVars, sdkVars, parseVars>>

\* variant of ShowStatus: a name without a server has its stale metadata removed
ShowStatus_DropsStale(name) ==
    /\ ppc = "idle"
    /\ hasToken
    /\ cmd' = [op |-> "status", name |-> name]
    /\ confirm' = Unset
    /\ ssh_key' = 0
    /\ IF ServersNamed(servers, name) = {}
       THEN /\ server' = NoServer
            /\ steps' = <<"load_metadata">>
            /\ metadata' = {m \in metadata : m.name # name}
            /\ End("ok", [kind |-> "not_found", name |-> name])
       ELSE \E found \in ServersNamed(servers, name) :
               /\ server' = found
               /\ steps' = <<"load_metadata">>
               /\ metadata' = metadata
               /\ End("ok", [kind |-> "status", ip |-> IpOf(found.id),
                             type |-> found.server_type, labels |-> found.labels,
                             meta |-> {m \in metadata : m.name = name}])
    /\ UNCHANGED <<hasToken, raisedBefore, servers, ssh_keys, keyFiles, nextId, sdkVars, parseVars>>

\* cmd_status, lines 403-426, and load_metadata: metadata is read only once
\* the server has been found
ShowStatus(name) ==
    /\ ppc = "idle"
    /\ hasToken
    /\ cmd' = [op |-> "status", name |-> name]
    /\ confirm' = Unset
    /\ ssh_key' = 0
    /\ IF ServersNamed(servers, name) = {}
       THEN /\ server' = NoServer
            /\ steps' = <<>>
            /\ End("ok", [kind |-> "not_found", name |-> name])
       ELSE \E found \in ServersNamed(servers, name) :
               /\ server' = found
               /\ steps' = <<"load_metadata">>
               /\ End("ok", [kind |-> "status", ip |-> IpOf(found.id),
                             type |-> found.server_type, labels |-> found.labels,
                             meta |-> {m \in metadata : m.name = name}])
    /\ UNCHANGED <<worldVars, sdkVars, parseVars>>

ProvNext ==
    \/ SetCredential
    \/ \E op \in {"provision", "list", "destroy", "status"} : NoCredential(op)
    \/ \E n \in Names, a \in ProvisionArgs : StartProvision(n, a[1], a[2], a[3])
    \/ ProvisionExisting
    \/ ProvisionAbsent
    \/ GenerateSshKey
    \/ RegisterKeyReuse
    \/ RegisterKeyUpload
    \/ CreateServer
    \/ ProbeReady
    \/ ProbeFails
    \/ PollExhausted
    \/ SaveMetadata
    \/ StepRaises
    \/ \E n \in Names, y \in BOOLEAN : StartDestroy(n, y)
    \/ DestroyAbsent
    \/ DestroyFound
    \/ \E a \in Answers : DestroyConfirm(a)
    \/ DestroyDeleteServer
    \/ DestroyRemoveMetadata
    \/ DestroyRemoveKey
    \/ ListServers
    \/ \E n \in Names : ShowStatus(n)

\* the SDK client as constructed, the provisioner not run
Init == SdkInit /\ ProvIdle /\ ParseInit

\* the SDK client, one call after another
Spec == Init /\ [][Next]_vars

\* a fresh checkout of the provisioner, the SDK client unused
ProvStart == ProvInit /\ SdkIdle /\ ParseInit

\* the provisioner, one command after another
ProvSpec == ProvStart /\ [][ProvNext]_vars

\* lines 302-358: a step of a call in progress, one turn of the loop or its exit
Attempt ==
    \/ \E s \in Statuses, b \in Bodies : AttemptOk(s, b)
    \/ \E s \in Statuses, caught \in BOOLEAN : AttemptOkUnparsable(s, caught)
    \/ \E s \in Statuses, b \in Bodies : AttemptClientError(s, b)
    \/ \E s \in Statuses, b \in Bodies : AttemptServerError(s, b)
    \/ \E c \in TransportFailures : AttemptTransportError(c)
    \/ LoopExit

\* the SDK client constructed with any `retries` and the default base URL
FairInit == Init /\ client = Client("sk_test", DEFAULT_BASE_URL, DEFAULT_TIMEOUT, FALSE)

\* lines 299-300: the first call made on the client
FirstRequest == pc = "idle" /\ Request

FairNext ==
    \/ FirstRequest
    \/ Attempt

\* one call of _request on a fresh client, where a call in progress goes on:
\* requests.request comes back within `timeout` and time.sleep within its
\* delay
FairSpec == FairInit /\ [][FairNext]_vars /\ WF_vars(Attempt)

\* a client that has made no call and a provisioner not run, before a response
\* is parsed
ParseStart == ParseInit /\ SdkIdle /\ ProvIdle

\* the parsing of one post response
ParseSpec == ParseStart /\ [][ParseNext]_vars


(***************************************************************************)
(* Properties of Solvr._request                                            *)
(***************************************************************************)
\* number of retryable failures the call has met so far
Failed == nServer + nTransport + nDecode

\* the body shapes that carry no usable "error" object
MalformedBodies == {"text", "array", "no_error", "error_null"}

\* C1: a status in [400,500) answered to the first attempt of a call ends the
\* call: exactly one request was sent, nothing was slept, and the SolvrError
\* raised carries that status.
C1_ClientErrorOneAttempt ==
    (/\ response.kind = "http"
     /\ response.status \in 400 .. 499
     /\ sent = 1)
    => /\ pc = "raised"
       /\ attempts = 1
       /\ slept = <<>>
       /\ result.kind = "raise"
       /\ result.error.kind = "SolvrError"
       /\ result.error.status = response.status

C1_Witness ==
    /\ retries = 3
    /\ pc = "raised"
    /\ response = HttpResponse(401, "error_msg")
    /\ sent = 1

\* C2: when every attempt of a call failed with a status >= 500 or a
\* transport failure, the call ends after exactly `retries` requests; while it
\* runs it never has sent more than `retries`.
C2_AttemptsEqualCeiling ==
    (sent >= 1 /\ nServer + nTransport = sent)
    => /\ sent <= retries
       /\ pc = "raised" => sent = retries
       /\ pc = "loop" => sent < retries

C2_Witness ==
    /\ retries = 4
    /\ pc = "raised"
    /\ sent = 4
    /\ nServer = 2
    /\ nTransport = 2

\* C3: an ok response with a JSON body on attempt k ends the call with that
\* body: the call has returned, k requests were sent where k - 1 is the number
\* of retryable failures before it, and the only sleeps are the k - 1 that
\* preceded it.
C3_SuccessShortCircuits ==
    (/\ response.kind = "http"
     /\ response.status < 400
     /\ response.body # "text")
    => /\ pc = "returned"
       /\ result = [kind |-> "return", body |-> response.body]
       /\ sent = Failed + 1
       /\ sent <= retries
       /\ Len(slept) = sent - 1

C3_Witness ==
    /\ retries = 3
    /\ pc = "returned"
    /\ nServer = 2
    /\ sent = 3
    /\ response = HttpResponse(200, "no_error")

\* the delay in ms that the documentation gives for the sleep after attempt k
BackoffMs(k) == IF 100 * (2 ^ (k - 1)) < 5000 THEN 100 * (2 ^ (k - 1)) ELSE 5000

\* C4: the k-th sleep of a call, after failed attempt k, lasts
\* min(100 * 2^(k-1), 5000) ms; the delays never decrease and never exceed 5 s.
C4_BackoffDelays ==
    /\ \A k \in 1 .. Len(slept) : slept[k] = BackoffMs(k) /\ slept[k] <= 5000
    /\ \A k \in 1 .. Len(slept) - 1 : slept[k] <= slept[k + 1]
    /\ pc = "loop" => Len(slept) = sent

C4_Witness ==
    /\ Len(slept) >= 7
    /\ slept[6] = 3200
    /\ slept[7] = 5000
    /\ nServer >= 1
    /\ nTransport >= 1

\* C5: when all `retries` attempts failed with a status >= 500 or a transport
\* failure, the error raised is the one of the last attempt: a SolvrError with
\* the status, message and code of the last response, or the transport
\* exception of the last attempt.
C5_LastErrorSurfaced ==
    (/\ pc = "raised"
     /\ sent >= 1
     /\ nServer + nTransport = sent)
    => /\ result.kind = "raise"
       /\ IF response.kind = "http"
          THEN /\ result.error.kind = "SolvrError"
               /\ result.error.status = response.status
               /\ result.error.code =
                      (IF response.body \in {"error_code", "error_msg_code"}
                       THEN "NOT_FOUND" ELSE "None")
               /\ result.error.message =
                      (IF response.body \in {"error_msg", "error_msg_code"}
                       THEN <<"Unauthorized">>
                       ELSE <<"API error: ", response.status>>)
          ELSE /\ result.error.kind = "RequestException"
               /\ result.error.cause = response.cause

C5_Witness ==
    /\ retries = 3
    /\ pc = "raised"
    /\ nServer = 2
    /\ nTransport = 1
    /\ response = HttpResponse(503, "error_msg_code")
    /\ result.error.status = 503

\* C6: with retries = R >= 1, a call answered only with statuses >= 500 ends
\* after R + 1 requests (one first attempt and R retries).
C6_RetriesAfterFirstAttempt ==
    (/\ retries >= 1
     /\ pc = "raised"
     /\ nServer = sent)
    => sent = retries + 1

\* C7: an error response whose body is malformed is classified by its status
\* alone: a 4xx ends the call, a 5xx is remembered and retried or raised, and
\* the SolvrError has the message "API error: <status>", code None and the
\* status of the response.
C7_MalformedBodyTolerated ==
    (/\ response.kind = "http"
     /\ response.status >= 400
     /\ response.body \in MalformedBodies)
    => LET e == [kind |-> "SolvrError",
                 message |-> <<"API error: ", response.status>>,
                 status |-> response.status,
                 code |-> "None"]
       IN  IF response.status < 500
           THEN /\ pc = "raised"
                /\ result = [kind |-> "raise", error |-> e]
           ELSE /\ last_error = e
                /\ IF sent < retries
                   THEN pc = "loop" /\ Len(slept) = sent
                   ELSE pc = "raised" /\ result = [kind |-> "raise", error |-> e]

C7_Witness ==
    /\ retries = 1
    /\ pc = "raised"
    /\ response = HttpResponse(500, "text")
    /\ result.error = [kind |-> "SolvrError", message |-> <<"API error: ", 500>>,
                       status |-> 500, code |-> "None"]

(***************************************************************************)
(* Properties of the provisioner                                           *)
(***************************************************************************)
Range(seq) == {seq[i] : i \in 1 .. Len(seq)}

\* the provision command is between its lookup and its end
Provisioning == cmd.op = "provision" /\ ppc \in {"p_lookup", "p_keygen", "p_register",
                                                 "p_create", "p_poll", "p_save"}

\* no step changes the provider, the key files or the metadata
WorldUntouched ==
    /\ servers' = servers
    /\ ssh_keys' = ssh_keys
    /\ keyFiles' = keyFiles
    /\ metadata' = metadata

\* at most one server carries each name
C8_OneServerPerName ==
    \A n \in Names : Cardinality(ServersNamed(servers, n)) <= 1

\* a step of a provision command that found a server of its name in place
\* (one it did not create itself) leaves the world as it is
C8_ExistingUntouched ==
    (/\ Provisioning
     /\ ServersNamed(servers, cmd.name) # {}
     /\ "create" \notin Range(steps))
    => WorldUntouched

\* C8: provision is idempotent by name: a provision command that finds a
\* server of its name creates no server, generates and registers no key and
\* writes no metadata; at most one server with a given name ever exists.
C8_ProvisionIdempotent == [] C8_OneServerPerName /\ [][C8_ExistingUntouched]_vars

C8_Witness ==
    /\ cmd.op = "provision"
    /\ exit = "ok"
    /\ output.kind = "exists"
    /\ steps = <<>>
    /\ \E m \in metadata : m.name = cmd.name /\ output.ip = m.ip
    /\ Cardinality(ServersNamed(servers, cmd.name)) = 1

\* the effects a provision command may have as its i-th
Stage(i) ==
    CASE i = 1 -> {"keygen", "key_found"}
      [] i = 2 -> {"key_upload", "key_reused"}
      [] i = 3 -> {"create"}
      [] i = 4 -> {"poll_ready", "poll_exhausted"}
      [] i = 5 -> {"save"}
      [] OTHER -> {}

\* the effects of a provision command so far are a prefix of: key pair, key
\* registration, server creation, poll, metadata; and each is in place
C9_Order ==
    cmd.op = "provision" =>
       /\ Len(steps) <= 5
       /\ \A i \in 1 .. Len(steps) : steps[i] \in Stage(i)
       /\ Len(steps) >= 1 => KeyPath(cmd.name) \in keyFiles
       /\ Len(steps) >= 2 =>
             \E k \in ssh_keys : k.name = SshKeyName(cmd.name) /\ k.id = ssh_key
       /\ Len(steps) >= 3 =>
             /\ server \in servers
             /\ server.name = cmd.name
             /\ server.ssh_keys = {ssh_key}
       /\ Len(steps) = 5 =>
             \E m \in metadata : m.name = cmd.name /\ m.hetzner_id = server.id
       /\ output.kind = "provisioned" => Len(steps) = 5

\* metadata is written by a provision command only after it has created the
\* server and the poll has ended, ready or not
C9_SaveLast ==
    (cmd.op = "provision" /\ cmd' = cmd /\ metadata' # metadata)
    => /\ Len(steps) = 4
       /\ steps[3] = "create"
       /\ steps[4] \in {"poll_ready", "poll_exhausted"}
       /\ server.id \in {sv.id : sv \in servers}

\* C9: a provision command for a name without a server ensures the key pair,
\* ensures the key registration, creates the server, polls for SSH and
\* persists the metadata, in this order; the metadata is persisted after the
\* poll whatever its outcome and never without the server creation.
C9_ProvisionOrder == [] C9_Order /\ [][C9_SaveLast]_vars

C9_Witness ==
    /\ cmd.op = "provision"
    /\ exit = "ok"
    /\ steps = <<"keygen", "key_upload", "create", "poll_exhausted", "save">>
    /\ \E m \in metadata : m.name = cmd.name /\ m.hetzner_id = server.id

\* at most one registered key carries each name solvr-<name>
C10_OneKeyPerName ==
    \A n \in Names : Cardinality(KeysNamed(ssh_keys, SshKeyName(n))) <= 1

\* ssh-keygen runs only when the private key file is absent, and a key is
\* registered only when none of its name is registered
C10_OnlyWhenAbsent ==
    /\ (Len(steps') = Len(steps) + 1 /\ steps'[Len(steps')] = "keygen")
          => KeyPath(cmd.name) \notin keyFiles
    /\ keyFiles' # keyFiles
          => KeyPath(cmd.name) \notin keyFiles /\ keyFiles' = keyFiles \cup {KeyPath(cmd.name)}
    /\ \A k \in ssh_keys' \ ssh_keys :
          k.name = SshKeyName(cmd.name) /\ KeysNamed(ssh_keys, k.name) = {}

\* C10: key handling in provision never duplicates: the key pair is generated
\* only when the private key file is absent, the public key is registered only
\* when no key named solvr-<name> is registered, and at most one registered
\* key named solvr-<name> exists after any provision and destroy commands.
C10_KeysNeverDuplicated == [] C10_OneKeyPerName /\ [][C10_OnlyWhenAbsent]_vars

C10_Witness ==
    /\ cmd.op = "provision"
    /\ exit = "ok"
    /\ steps = <<"key_found", "key_reused", "create", "poll_ready", "save">>
    /\ Cardinality(KeysNamed(ssh_keys, SshKeyName(cmd.name))) = 1

\* after a destroy that ran to its end, no server, no metadata and no
\* registered key of that name is left
C11_NothingLeft ==
    (cmd.op = "destroy" /\ ppc = "idle" /\ output.kind = "destroyed")
    => /\ ServersNamed(servers, cmd.name) = {}
       /\ ~ \E m \in metadata : m.name = cmd.name
       /\ KeysNamed(ssh_keys, SshKeyName(cmd.name)) = {}
       /\ steps[1] = "delete_server"

\* a destroy removes metadata or a registered key only once the server it
\* found is gone, and what it removes belongs to its name
C11_ServerFirst ==
    (cmd.op = "destroy" /\ ppc # "idle" /\ (metadata' # metadata \/ ssh_keys' # ssh_keys))
    => /\ server \notin servers
       /\ steps[1] = "delete_server"
       /\ \A m \in metadata \ metadata' : m.name = cmd.name
       /\ \A k \in ssh_keys \ ssh_keys' : k.name = SshKeyName(cmd.name)

\* C11: a confirmed destroy of an existing server that completes leaves no
\* server of that name, no metadata of that name and no registered key
\* solvr-<name>; the server is deleted before the metadata and the key.
C11_DestroyRemovesAll == [] C11_NothingLeft /\ [][C11_ServerFirst]_vars

C11_Witness ==
    /\ cmd.op = "destroy"
    /\ ppc = "idle"
    /\ output.kind = "destroyed"
    /\ steps = <<"delete_server", "rmtree", "delete_key">>
    /\ server.id \in 1 .. MaxIds
    /\ ServersNamed(servers, cmd.name) = {}

\* the server carries the label managed-by=solvr-infra
Owned(s) == "managed-by" \in DOMAIN s.labels /\ s.labels["managed-by"] = "solvr-infra"

\* list reports servers that carry the label, and no others
C12_ListOwned ==
    (cmd.op = "list" /\ output.kind = "table")
    => \A r \in output.rows : \E s \in servers : Owned(s) /\ s.name = r.name /\ IpOf(s.id) = r.ip

\* a server that is deleted carries the label
C12_DeleteOwned == \A s \in servers \ servers' : Owned(s)

\* C12: the managed-by label scopes list and destroy: list reports only
\* servers labelled managed-by=solvr-infra, and destroy deletes a server only
\* if it carries that label.
C12_ManagedByScopes == [] C12_ListOwned /\ [][C12_DeleteOwned]_vars

\* without a credential no command is in progress
C13_NoCommandRuns == ~hasToken => ppc = "idle"

\* a command started without a credential ends at once with exit status 1
\* and leaves the provider, the key files and the metadata as they were
C13_FatalBeforeAnything ==
    (~hasToken /\ ~hasToken')
    => /\ WorldUntouched
       /\ nextId' = nextId
       /\ ppc' = "idle"
       /\ exit' = "fatal"
       /\ steps' = <<>>
       /\ output'.kind = "error"

\* C13: without a credential every provisioner command exits fatally (exit
\* status 1) in get_client, before any provider call, key generation or
\* metadata change.
C13_NoCredentialFatal == [] C13_NoCommandRuns /\ [][C13_FatalBeforeAnything]_vars

C13_Witness ==
    /\ ~hasToken
    /\ cmd.op = "destroy"
    /\ exit = "fatal"
    /\ servers # {}
    /\ metadata # {}
    /\ ssh_keys # {}

\* no step of any call assigns a field the constructor set
C14_FieldsKept == client' = client /\ retries' = retries

\* the attempt counter counts the requests of the call in progress and no
\* others; after an earlier call failed, a call whose attempts all fail with a
\* status >= 500 or a transport failure still makes `retries` requests
C14_CounterPrivate ==
    /\ attempts = sent
    /\ (failedBefore /\ pc = "raised" /\ sent >= 1 /\ nServer + nTransport = sent)
       => sent = retries

\* C14: no call changes _api_key, _base_url, _timeout, _debug or _retries, and
\* the attempt counter is local to each call: a call made after failed calls
\* has the same `retries` attempts.
C14_ClientImmutable == [] C14_CounterPrivate /\ [][C14_FieldsKept]_vars

C14_Witness ==
    /\ failedBefore
    /\ retries = 3
    /\ pc = "raised"
    /\ sent = 3
    /\ nServer = 3
    /\ client._base_url = <<"http://localhost:8080">>

\* the sleeps of wait_for_ssh: those after the 45 s boot wait of cmd_provision
PollNaps == SubSeq(naps, 2, Len(naps))

\* C15: wait_for_ssh makes at most max_retries = 10 probes; every failed probe
\* is followed by one sleep of 5 s; the first successful probe ends the poll
\* with True and no further probe or sleep; after 10 failed probes the poll
\* ends with False.
C15_PollBounded ==
    (ppc \in {"p_poll", "p_save"})
    => /\ probes <= MaxSshRetries
       /\ naps # <<>> /\ naps[1] = 45
       /\ \A i \in DOMAIN PollNaps : PollNaps[i] = 5
       /\ ppc = "p_poll" => Len(PollNaps) = probes
       /\ (ppc = "p_save" /\ steps[Len(steps)] = "poll_ready")
          => probes >= 1 /\ Len(PollNaps) = probes - 1
       /\ (ppc = "p_save" /\ steps[Len(steps)] = "poll_exhausted")
          => probes = MaxSshRetries /\ Len(PollNaps) = MaxSshRetries

C15_Witness ==
    /\ ppc = "p_save"
    /\ steps[Len(steps)] = "poll_exhausted"
    /\ probes = 10
    /\ Len(naps) = 11

C15_WitnessReady ==
    /\ ppc = "p_save"
    /\ steps[Len(steps)] = "poll_ready"
    /\ probes = 4
    /\ naps = <<45, 5, 5, 5>>

\* a step of list or status leaves the provider, the key files and the
\* metadata as they were, and takes no id from the provider
C16_NothingWritten ==
    (cmd'.op \in {"list", "status"} /\ (cmd' # cmd \/ exit' # exit \/ output' # output \/ steps' # steps))
    => WorldUntouched /\ nextId' = nextId

\* status of a name without a server has reported not-found and read nothing
C16_NotFoundReadsNothing ==
    (cmd.op = "status" /\ exit = "ok" /\ ServersNamed(servers, cmd.name) = {})
    => output = [kind |-> "not_found", name |-> cmd.name] /\ steps = <<>>

\* C16: cmd_list and cmd_status change no server, no registered key, no
\* metadata and no key file; cmd_status of a name that has no server reports
\* not-found without reading the metadata.
C16_ListStatusReadOnly == [] C16_NotFoundReadsNothing /\ [][C16_NothingWritten]_vars

C16_Witness ==
    /\ cmd.op = "status"
    /\ output.kind = "not_found"
    /\ steps = <<>>
    /\ \E m \in metadata : m.name = cmd.name
    /\ servers # {}

C16_WitnessList ==
    /\ cmd.op = "list"
    /\ output.kind = "table"
    /\ metadata # {}
    /\ ssh_keys # {}

(***************************************************************************)
(* Properties of Solvr._parse_post                                         *)
(***************************************************************************)
\* _parse_post returned a Post
Parsed == post # NotParsed /\ "raised" \notin DOMAIN post

\* the fields of Post whose value is the JSON value itself
PlainFields == {"id", "type", "title", "description", "status", "upvotes", "downvotes",
                "view_count", "created_at", "updated_at", "tags", "success_criteria",
                "accepted_answer_id"}

\* a JSON list with each element made into its record
Each(l, Parse(_)) == PyList([i \in DOMAIN l.list |-> Parse(l.list[i])])

\* C17: in the Post that _parse_post returns, every field present in the
\* response has the value of the response (nested objects as their records),
\* and every absent optional field has its default: status "open",
\* upvotes/downvotes/view_count 0, created_at/updated_at "", and
\* tags/author/approaches/answers None.
C17_PresentCopiedAbsentDefault ==
    Parsed
    => /\ \A k \in PlainFields \cap DOMAIN data : post[k] = data[k]
       /\ ("author" \in DOMAIN data /\ data.author = PyNone) => post.author = PyNone
       /\ ("author" \in DOMAIN data /\ data.author # PyNone)
          => post.author = _parse_author(data.author)
       /\ "approaches" \in DOMAIN data
          => post.approaches = Each(data.approaches, _parse_approach)
       /\ "answers" \in DOMAIN data
          => post.answers = Each(data.answers, _parse_answer)
       /\ "comments" \in DOMAIN data => post.comments # PyNone
       /\ "status" \notin DOMAIN data => post.status = PyStr("open")
       /\ "upvotes" \notin DOMAIN data => post.upvotes = PyInt(0)
       /\ "downvotes" \notin DOMAIN data => post.downvotes = PyInt(0)
       /\ "view_count" \notin DOMAIN data => post.view_count = PyInt(0)
       /\ "created_at" \notin DOMAIN data => post.created_at = PyStr("")
       /\ "updated_at" \notin DOMAIN data => post.updated_at = PyStr("")
       /\ "tags" \notin DOMAIN data => post.tags = PyNone
       /\ "author" \notin DOMAIN data => post.author = PyNone
       /\ "approaches" \notin DOMAIN data => post.approaches = PyNone
       /\ "answers" \notin DOMAIN data => post.answers = PyNone

\* what does hold: the same, for lists that are not empty and without
\* `comments`; an empty `approaches` or `answers` comes out as None
ParsePostAsCoded ==
    Parsed
    => /\ \A k \in PlainFields \cap DOMAIN data : post[k] = data[k]
       /\ ("author" \in DOMAIN data /\ data.author # PyNone)
          => post.author = _parse_author(data.author)
       /\ \A k \in {"author", "approaches", "answers"} :
             (k \notin DOMAIN data \/ ~Truthy(data[k])) => post[k] = PyNone
       /\ ("approaches" \in DOMAIN data /\ Truthy(data.approaches))
          => post.approaches = Each(data.approaches, _parse_approach)
       /\ ("answers" \in DOMAIN data /\ Truthy(data.answers))
          => post.answers = Each(data.answers, _parse_answer)
       /\ post.comments = PyNone
       /\ post.status = Get(data, "status", PyStr("open"))
       /\ post.tags = Get(data, "tags", PyNone)
       /\ \A k \in {"upvotes", "downvotes", "view_count"} : post[k] = Get(data, k, PyInt(0))
       /\ \A k \in {"created_at", "updated_at"} : post[k] = Get(data, k, PyStr(""))

\* a response with an empty list of approaches has been parsed
ParseEmptyList ==
    /\ Parsed
    /\ "approaches" \in DOMAIN data
    /\ data.approaches = PyList(<<>>)
    /\ post.approaches = PyNone

\* C18: when attempt k of a call is answered with a status in [400,500), the
\* k - 1 attempts before it having failed in retryable ways, the call raises
\* at once a SolvrError with that status, the message and the code of the
\* body (the generic message and no code when the body has none); k requests
\* were sent and only the k - 1 sleeps before them were made, whatever
\* `retries` is.
C18_ClientErrorTerminal ==
    (/\ response.kind = "http"
     /\ response.status \in 400 .. 499)
    => /\ pc = "raised"
       /\ sent = Failed + 1
       /\ attempts = sent
       /\ sent <= retries
       /\ Len(slept) = sent - 1
       /\ result.kind = "raise"
       /\ result.error.kind = "SolvrError"
       /\ result.error.status = response.status
       /\ result.error.message =
              (IF response.body \in {"error_msg", "error_msg_code"}
               THEN <<"Unauthorized">>
               ELSE <<"API error: ", response.status>>)
       /\ result.error.code =
              (IF response.body \in {"error_code", "error_msg_code"}
               THEN "NOT_FOUND" ELSE "None")

C18_Witness ==
    /\ retries = 5
    /\ pc = "raised"
    /\ sent = 3
    /\ nServer = 1
    /\ nTransport = 1
    /\ response = HttpResponse(404, "error_msg_code")
    /\ result.error = SolvrError(<<"Unauthorized">>, 404, "NOT_FOUND")

\* a call that has ended after n >= 1 requests has slept n - 1 times; a call
\* about to make its next attempt has slept once for each request made
C19_SleepCount ==
    /\ (pc \in {"returned", "raised"} /\ sent >= 1) => Len(slept) = sent - 1
    /\ pc = "loop" => Len(slept) = sent
    /\ sent = 0 => slept = <<>>

\* a sleep is made only by an attempt that failed in a retryable way with
\* attempts left: never by the step that ends the call, never after a
\* successful response or a status in [400,500)
C19_SleepOnlyBeforeRetry ==
    (slept' # slept /\ slept' # <<>>)
    => /\ Len(slept') = Len(slept) + 1
       /\ pc' = "loop"
       /\ attempts' < retries
       /\ response'.kind = "http" => (response'.status >= 500 \/ response'.body = "text")

\* C19: _request sleeps only between attempts: n attempts come with exactly
\* n - 1 sleeps whether the call ends in success, in a 4xx error or in
\* exhaustion, and no sleep follows the last attempt.
C19_SleepsBetweenAttempts == [] C19_SleepCount /\ [][C19_SleepOnlyBeforeRetry]_vars

C19_Witness ==
    /\ retries = 4
    /\ pc = "raised"
    /\ sent = 4
    /\ nServer + nTransport = 4
    /\ Len(slept) = 3

C19_WitnessSuccess ==
    /\ retries = 4
    /\ pc = "returned"
    /\ sent = 3
    /\ Len(slept) = 2

\* the steps of destroy that delete
Deleting == {"d_delete", "d_rmtree", "d_key"}

\* --yes was given or the prompt was answered y or Y
Confirmed == cmd.yes \/ confirm \in {"y", "Y"}

\* destroy reaches its deleting steps only for a server it found under the
\* name and only when confirmed; a destroy that ended with not-found or
\* cancelled has had no effect
C20_DeletesOnlyConfirmed ==
    /\ (cmd.op = "destroy" /\ ppc \in Deleting)
       => server # NoServer /\ server.name = cmd.name /\ Confirmed
    /\ (cmd.op = "destroy" /\ ppc = "idle" /\ exit = "ok" /\ output.kind = "not_found")
       => steps = <<>>
    /\ (cmd.op = "destroy" /\ ppc = "idle" /\ exit = "ok" /\ ~cmd.yes /\ confirm \notin {"y", "Y"})
       => steps = <<>> /\ output.kind \in {"not_found", "cancelled"}

\* a step of destroy that changes the provider, the key files or the metadata
\* is a deleting step of a confirmed destroy; a lookup that finds no server
\* and an answer other than y or Y end the command with nothing changed
C20_FrameUnlessConfirmed ==
    /\ (cmd'.op = "destroy" /\ ~WorldUntouched)
       => ppc \in Deleting /\ Confirmed /\ server.name = cmd.name
    /\ (ppc = "d_lookup" /\ ServersNamed(servers, cmd.name) = {} /\ ppc' # ppc)
       => WorldUntouched /\ ppc' = "idle" /\ steps' = <<>>
    /\ (ppc = "d_confirm" /\ confirm' \notin {"y", "Y"} /\ ppc' # ppc)
       => WorldUntouched /\ ppc' = "idle" /\ steps' = <<>> /\ output'.kind = "cancelled"

\* C20: cmd_destroy deletes no server, no registered key and no metadata when
\* no server has the name, or when --yes was not given and the prompt was
\* answered with anything other than y or Y.
C20_DestroyNeedsConfirmation == [] C20_DeletesOnlyConfirmed /\ [][C20_FrameUnlessConfirmed]_vars

C20_Witness ==
    /\ cmd.op = "destroy"
    /\ output.kind = "cancelled"
    /\ confirm = "YES"
    /\ server \in servers
    /\ \E m \in metadata : m.name = cmd.name
    /\ KeysNamed(ssh_keys, SshKeyName(cmd.name)) # {}

C20_WitnessAbsent ==
    /\ cmd.op = "destroy"
    /\ output.kind = "not_found"
    /\ cmd.yes
    /\ \E m \in metadata : m.name = cmd.name
    /\ servers # {}

Max(a, b) == IF a >= b THEN a ELSE b

\* a call never makes more than max(retries, 0) attempts, and every turn of
\* the loop that does not end the call uses one of them
C21_AttemptsBounded ==
    /\ sent <= Max(retries, 0)
    /\ attempts <= Max(retries, 0)
    /\ pc \in {"idle", "loop", "returned", "raised"}
    /\ pc = "returned" => result.kind = "return"
    /\ pc = "raised" => result.kind = "raise"

\* a call in progress ends: it returns a body or raises
C21_CallEnds == (pc = "loop") ~> (pc \in {"returned", "raised"})

\* C21: every call of _request terminates, whatever `retries` is and whatever
\* responses and transport failures it meets: it returns a parsed body or
\* raises after at most max(retries, 0) attempts.
C21_RequestTerminates == [] C21_AttemptsBounded /\ C21_CallEnds

C21_Witness ==
    /\ retries = MaxRetries
    /\ pc = "raised"
    /\ sent = MaxRetries
    /\ nServer >= 1
    /\ nTransport >= 1
    /\ nDecode >= 1

\* C22: a client constructed with retries <= 0 sends no request and sleeps
\* never; every call raises Exception("Request failed after retries"), which
\* is neither a SolvrError nor a transport error, and no call returns.
C22_NoAttemptsAllowed ==
    (retries <= 0)
    => /\ sent = 0
       /\ attempts = 0
       /\ slept = <<>>
       /\ response = NoResponse
       /\ pc # "returned"
       /\ pc = "raised"
          => /\ result.kind = "raise"
             /\ result.error.kind = "Exception"
             /\ result.error.message = <<"Request failed after retries">>

C22_Witness ==
    /\ retries = 0
    /\ failedBefore
    /\ pc = "raised"
    /\ result.error = GenericException

C22_WitnessNegative ==
    /\ retries = -1
    /\ pc = "raised"
    /\ result.error = GenericException

\* the names that have metadata, the names that have a server
MetadataNames == {m.name : m \in metadata}
ServerNames == {s.name : s \in servers}

\* C23: as long as no command has died of an exception, between commands
\* every name that has local metadata has a server at the provider, after
\* any sequence of provision, destroy, list and status commands.
C23_MetadataImpliesServer ==
    (ppc = "idle" /\ ~raisedBefore) => MetadataNames \subseteq ServerNames

C23_Witness ==
    /\ ppc = "idle"
    /\ ~raisedBefore
    /\ cmd.op = "destroy"
    /\ output.kind = "destroyed"
    /\ steps = <<"delete_server", "rmtree", "delete_key">>
    /\ metadata # {}

\* the servers this tool created that still exist: the provider gave them the
\* ids 1 .. nextId - 1
Provisioned == {s \in servers : s.id \in 1 .. (nextId - 1)}

\* C24: every server cmd_provision created carries managed-by=solvr-infra and
\* name=<its name>, whatever purpose, type and location were asked for, and
\* list reports exactly the servers this tool created that have not been
\* destroyed: one row for each, none for any other server.
C24_ListIsProvisioned ==
    /\ \A s \in Provisioned :
          /\ {"managed-by", "name"} \subseteq DOMAIN s.labels
          /\ s.labels["managed-by"] = "solvr-infra"
          /\ s.labels["name"] = s.name
    /\ (cmd.op = "list" /\ exit = "ok")
       => IF Provisioned = {}
          THEN output = [kind |-> "no_servers"]
          ELSE /\ output.kind = "table"
               /\ {<<r.name, r.ip>> : r \in output.rows}
                      = {<<s.name, IpOf(s.id)>> : s \in Provisioned}
               /\ Cardinality(output.rows) = Cardinality(Provisioned)

C24_Witness ==
    /\ cmd.op = "list"
    /\ exit = "ok"
    /\ output.kind = "table"
    /\ Cardinality(output.rows) = 1
    /\ \E s \in Provisioned : s.server_type = "cx42" /\ s.labels["service"] = "api"
    /\ nextId >= 3
    /\ Cardinality(servers) >= 2

====
